---- MODULE Spec2Model ----
(***************************************************************************)
(* A model of src/main.py: the QLT decoder (decode_tsv, the row loop of    *)
(* main, QltMachineRow.__init__) and the coordinate evaluator              *)
(* (QltMachineRow.calculate_coordinates).                                  *)
(*                                                                         *)
(* A Python str is a sequence of one-character strings, so that            *)
(* str.replace, str.strip and eval work on the text itself.  A number is   *)
(* a reduced fraction [n, d]; Python's int and float are not told apart    *)
(* (400 == 400.0 in Python) and float rounding is not modelled.            *)
(***************************************************************************)
EXTENDS Integers, Sequences, FiniteSets, TLC

VARIABLES
    file,             \* the rows csv.reader yields for the file, blank lines as <<>>
    decoded_data,     \* main: decoded_data
    i,                \* main: index of the first loop (0-based, as enumerate)
    qlt_rows,         \* main: qlt_rows
    out,              \* everything printed so far (the diagnostics channel)
    pc,               \* position in main / in the caller
    board,            \* main: board (calculate_coordinates: panel)
    r,                \* main: position of machine_row in qlt_rows (1-based)
    j,                \* calculate_coordinates: position in self.coordinates (1-based)
    results,          \* calculate_coordinates: results
    current_triplet,  \* calculate_coordinates: current_triplet
    coordinates,      \* main: coordinates, the value calculate_coordinates returned
    t,                \* main: position of triplet in coordinates (1-based)
    plotted,          \* the points handed to ax.plot
    caller            \* who called calculate_coordinates: main, or a client of the class

vars == <<file, decoded_data, i, qlt_rows, out, pc, board, r, j, results,
          current_triplet, coordinates, t, plotted, caller>>

----------------------------------------------------------------------------
(* Bounds of the model *)

\* longest file, in rows
MaxRows == 7
\* most additional coordinate expressions of a row built directly
MaxExtra == 3

----------------------------------------------------------------------------
(* Python strings *)

QUOTE == "\""

DIM1 == <<"D", "i", "m", "1">>
DIM2 == <<"D", "i", "m", "2">>
DIM3 == <<"D", "i", "m", "3">>


DigitChars == <<"0", "1", "2", "3", "4", "5", "6", "7", "8", "9">>

IsDigit(c) == \E k \in 1..10 : DigitChars[k] = c

DigitVal(c) == (CHOOSE k \in 1..10 : DigitChars[k] = c) - 1

Letters == {"a", "b", "c", "d", "e", "f", "g", "h", "i", "j", "k", "l", "m",
            "n", "o", "p", "q", "r", "s", "t", "u", "v", "w", "x", "y", "z",
            "A", "B", "C", "D", "E", "F", "G", "H", "I", "J", "K", "L", "M",
            "N", "O", "P", "Q", "R", "S", "T", "U", "V", "W", "X", "Y", "Z",
            "_"}

IsLetter(c) == c \in Letters

Abs(n) == IF n < 0 THEN -n ELSE n

RECURSIVE NatStr(_)
NatStr(n) == IF n < 10 THEN <<DigitChars[n + 1]>>
             ELSE NatStr(n \div 10) \o <<DigitChars[(n % 10) + 1]>>

\* str(n) of an int
Str(n) == IF n < 0 THEN <<"-">> \o NatStr(-n) ELSE NatStr(n)

StartsWithAt(s, p, old) ==
    /\ p + Len(old) - 1 <= Len(s)
    /\ \A k \in 1..Len(old) : s[p + k - 1] = old[k]

RECURSIVE ReplaceFrom(_, _, _, _)
ReplaceFrom(s, p, old, new) ==
    IF p > Len(s) THEN <<>>
    ELSE IF StartsWithAt(s, p, old)
         THEN new \o ReplaceFrom(s, p + Len(old), old, new)
         ELSE <<s[p]>> \o ReplaceFrom(s, p + 1, old, new)

\* s.replace(old, new), old not empty: the occurrences found scanning left to right
Replace(s, old, new) == ReplaceFrom(s, 1, old, new)

RECURSIVE LStrip(_, _)
LStrip(s, c) == IF s # <<>> /\ Head(s) = c THEN LStrip(Tail(s), c) ELSE s

RECURSIVE RStrip(_, _)
RStrip(s, c) == IF s # <<>> /\ s[Len(s)] = c
                THEN RStrip(SubSeq(s, 1, Len(s) - 1), c) ELSE s

\* s.strip(c) for a one-character c
Strip(s, c) == RStrip(LStrip(s, c), c)

----------------------------------------------------------------------------
(* Numbers *)

RECURSIVE GCD(_, _)
GCD(a, b) == IF b = 0 THEN a ELSE GCD(b, a % b)

Frac(n, d) == LET g == GCD(Abs(n), d) IN [n |-> n \div g, d |-> d \div g]

Whole(n) == [n |-> n, d |-> 1]

Add(a, b) == Frac(a.n * b.d + b.n * a.d, a.d * b.d)
Sub(a, b) == Frac(a.n * b.d - b.n * a.d, a.d * b.d)
Mul(a, b) == Frac(a.n * b.n, a.d * b.d)
Neg(a)    == [n |-> -a.n, d |-> a.d]
\* a / b for b # 0
Div(a, b) == IF b.n < 0 THEN Frac(-(a.n * b.d), a.d * (-b.n))
             ELSE Frac(a.n * b.d, a.d * b.n)

----------------------------------------------------------------------------
(* eval(coord_expr), for the arithmetic texts a coordinate column holds:    *)
(* numbers (digits, optionally with a decimal point), names, + - * /,       *)
(* unary + and -, parentheses and blanks.  The text is parsed whole first   *)
(* (SyntaxError), then evaluated left to right (NameError for a name: the   *)
(* names of the texts modelled are bound neither in the method's locals nor *)
(* in the module's globals; ZeroDivisionError).                             *)

NoTree == [t |-> "none"]

ParseFail == [ok |-> FALSE, pos |-> 0, ast |-> NoTree]

Parsed(p, a) == [ok |-> TRUE, pos |-> p, ast |-> a]

RECURSIVE SkipWs(_, _)
SkipWs(s, p) == IF p <= Len(s) /\ s[p] = " " THEN SkipWs(s, p + 1) ELSE p

RECURSIVE ScanDigits(_, _)
ScanDigits(s, p) == IF p <= Len(s) /\ IsDigit(s[p]) THEN ScanDigits(s, p + 1) ELSE p

RECURSIVE ScanName(_, _)
ScanName(s, p) == IF p <= Len(s) /\ (IsLetter(s[p]) \/ IsDigit(s[p]))
                  THEN ScanName(s, p + 1) ELSE p

RECURSIVE DigitsVal(_, _, _)
\* the value of the digits s[a..b], 0 for none
DigitsVal(s, a, b) == IF b < a THEN 0
                      ELSE 10 * DigitsVal(s, a, b - 1) + DigitVal(s[b])

RECURSIVE Pow10(_)
Pow10(k) == IF k = 0 THEN 1 ELSE 10 * Pow10(k - 1)

\* a NUMBER token from p: digits, digits.digits, digits. or .digits; e1 and e2
\* are the ends of the digits before and after the point
NumberTok(s, p, e1, e2, hasDot) ==
    IF \/ (e1 = p /\ e2 <= e1 + 1)
       \* "012" is no decimal integer literal; "0", "00" and "012.5" are
       \/ (~hasDot /\ e1 - p > 1 /\ s[p] = "0" /\ DigitsVal(s, p, e1 - 1) # 0)
       \* a letter glued to the digits
       \/ (e2 <= Len(s) /\ IsLetter(s[e2]))
    THEN ParseFail
    ELSE Parsed(e2, [t |-> "num",
                     v |-> IF hasDot
                           THEN Frac(DigitsVal(s, p, e1 - 1) * Pow10(e2 - (e1 + 1))
                                        + DigitsVal(s, e1 + 1, e2 - 1),
                                     Pow10(e2 - (e1 + 1)))
                           ELSE Whole(DigitsVal(s, p, e1 - 1))])

NumberFrom(s, p, e1) ==
    IF e1 <= Len(s) /\ s[e1] = "."
    THEN NumberTok(s, p, e1, ScanDigits(s, e1 + 1), TRUE)
    ELSE NumberTok(s, p, e1, e1, FALSE)

ParseNumber(s, p) == NumberFrom(s, p, ScanDigits(s, p))

NameTok(s, p, q) == Parsed(q, [t |-> "name", id |-> SubSeq(s, p, q - 1)])

Unary(op, f) ==
    IF f.ok THEN Parsed(f.pos, [t |-> "unary", op |-> op, e |-> f.ast]) ELSE ParseFail

\* the left operand l (a parse) and the right operand f (a parse) joined by op
Binary(op, l, f) ==
    IF f.ok THEN Parsed(f.pos, [t |-> "bin", op |-> op, l |-> l.ast, r |-> f.ast])
    ELSE ParseFail

\* the ")" that closes the parenthesised expression e, looked for at q
CloseAt(s, e, q) ==
    IF q <= Len(s) /\ s[q] = ")" THEN Parsed(q + 1, e.ast) ELSE ParseFail

CloseParen(s, e) == IF e.ok THEN CloseAt(s, e, SkipWs(s, e.pos)) ELSE ParseFail

RECURSIVE ParseExpr(_, _), ExprRest(_, _), ExprRestAt(_, _, _), ParseTerm(_, _),
          TermRest(_, _), TermRestAt(_, _, _), ParseFactor(_, _), FactorAt(_, _),
          AtomAt(_, _)

\* atom: "(" expr ")" | NUMBER | NAME
AtomAt(s, p) ==
    IF p > Len(s) THEN ParseFail
    ELSE IF s[p] = "(" THEN CloseParen(s, ParseExpr(s, p + 1))
    ELSE IF IsDigit(s[p]) \/ s[p] = "." THEN ParseNumber(s, p)
    ELSE IF IsLetter(s[p]) THEN NameTok(s, p, ScanName(s, p))
    ELSE ParseFail

\* factor: ("+" | "-") factor | atom
FactorAt(s, p) ==
    IF p <= Len(s) /\ s[p] \in {"-", "+"}
    THEN Unary(s[p], ParseFactor(s, p + 1))
    ELSE AtomAt(s, p)

ParseFactor(s, p) == FactorAt(s, SkipWs(s, p))

\* term: factor (("*" | "/") factor)*, l the parse of what stands to the left
TermRestAt(s, l, p) ==
    IF p <= Len(s) /\ s[p] \in {"*", "/"}
    THEN TermRest(s, Binary(s[p], l, ParseFactor(s, p + 1)))
    ELSE Parsed(p, l.ast)

TermRest(s, l) == IF l.ok THEN TermRestAt(s, l, SkipWs(s, l.pos)) ELSE ParseFail

ParseTerm(s, p) == TermRest(s, ParseFactor(s, p))

\* expr: term (("+" | "-") term)*
ExprRestAt(s, l, p) ==
    IF p <= Len(s) /\ s[p] \in {"+", "-"}
    THEN ExprRest(s, Binary(s[p], l, ParseTerm(s, p + 1)))
    ELSE Parsed(p, l.ast)

ExprRest(s, l) == IF l.ok THEN ExprRestAt(s, l, SkipWs(s, l.pos)) ELSE ParseFail

ParseExpr(s, p) == ExprRest(s, ParseTerm(s, p))

Value(v) == [ok |-> TRUE, val |-> v, err |-> "none"]

Raise(e) == [ok |-> FALSE, val |-> Whole(0), err |-> e]

\* the operands are evaluated left to right, then the operator is applied
BinaryValue(op, x, y) ==
    IF ~x.ok THEN x
    ELSE IF ~y.ok THEN y
    ELSE IF op = "+" THEN Value(Add(x.val, y.val))
    ELSE IF op = "-" THEN Value(Sub(x.val, y.val))
    ELSE IF op = "*" THEN Value(Mul(x.val, y.val))
    ELSE IF y.val.n = 0 THEN Raise("ZeroDivisionError")
    ELSE Value(Div(x.val, y.val))

UnaryValue(op, x) ==
    IF ~x.ok THEN x ELSE IF op = "-" THEN Value(Neg(x.val)) ELSE x

RECURSIVE EvalTree(_)
EvalTree(a) ==
    IF a.t = "num" THEN Value(a.v)
    ELSE IF a.t = "name" THEN Raise("NameError")
    ELSE IF a.t = "unary" THEN UnaryValue(a.op, EvalTree(a.e))
    ELSE BinaryValue(a.op, EvalTree(a.l), EvalTree(a.r))

\* the parse e is the whole text, or the text is no expression
EvalParsed(s, e) ==
    IF e.ok /\ SkipWs(s, e.pos) = Len(s) + 1 THEN EvalTree(e.ast)
    ELSE Raise("SyntaxError")

\* eval(s): the value, or the exception raised
Eval(s) == EvalParsed(s, ParseExpr(s, 1))

----------------------------------------------------------------------------
(* The data model *)

\* BoardSize(width, height, thickness)
BoardSize(width, height, thickness) ==
    [width |-> width, height |-> height, thickness |-> thickness]

DefaultWidth == 200
DefaultHeight == 800
DefaultThickness == 16

\* BoardSize(): the defaults of the constructor
DefaultBoard == BoardSize(DefaultWidth, DefaultHeight, DefaultThickness)

\* the positional parameters of QltMachineRow.__init__ before *additional_coordinates
RowArity == 10

\* QltMachineRow with z optional ("z: str = ''"): nine arguments suffice
QltMachineRow_DefaultZ(args) ==
    IF Len(args) < RowArity - 1
    THEN [ok |-> FALSE, err |-> "TypeError"]
    ELSE [ok |-> TRUE,
          row |-> [use     |-> args[1],
                   layer   |-> args[2],
                   diam    |-> args[3],
                   depth   |-> args[4],
                   rep_qty |-> args[7],
                   repx    |-> args[8],
                   repy    |-> args[9],
                   coordinates |-> <<args[5], args[6]>>
                                   \o (IF Len(args) >= RowArity
                                       THEN <<args[RowArity]>> ELSE << <<>> >>)
                                   \o SubSeq(args, RowArity + 1, Len(args))]]

\* QltMachineRow with z appended after the additional coordinates
QltMachineRow_ZLast(args) ==
    IF Len(args) < RowArity
    THEN [ok |-> FALSE, err |-> "TypeError"]
    ELSE [ok |-> TRUE,
          row |-> [use     |-> args[1],
                   layer   |-> args[2],
                   diam    |-> args[3],
                   depth   |-> args[4],
                   rep_qty |-> args[7],
                   repx    |-> args[8],
                   repy    |-> args[9],
                   coordinates |-> <<args[5], args[6]>>
                                   \o SubSeq(args, RowArity + 1, Len(args))
                                   \o <<args[10]>>]]

\* QltMachineRow(*args): the row built, or the TypeError of a call that misses
\* a required positional argument
QltMachineRow(args) ==
    IF Len(args) < RowArity
    THEN [ok |-> FALSE, err |-> "TypeError"]
    ELSE [ok |-> TRUE,
          row |-> [use     |-> args[1],
                   layer   |-> args[2],
                   diam    |-> args[3],
                   depth   |-> args[4],
                   rep_qty |-> args[7],
                   repx    |-> args[8],
                   repy    |-> args[9],
                   coordinates |-> <<args[5], args[6], args[10]>>
                                   \o SubSeq(args, RowArity + 1, Len(args))]]

----------------------------------------------------------------------------
(* calculate_coordinates *)

TripletLen == 3

\* Substitute with Dim1 bound to the width and Dim2 to the height
Substitute_Swapped(coord_expr, panel) ==
    LET e1 == Replace(coord_expr, DIM1, Str(panel.width))
        e2 == Replace(e1, DIM2, Str(panel.height))
        e3 == Replace(e2, DIM3, Str(panel.thickness))
    IN  Strip(e3, QUOTE)

\* lines 80-84: the placeholders replaced, then the quotes stripped
Substitute(coord_expr, panel) ==
    LET e1 == Replace(coord_expr, DIM1, Str(panel.height))
        e2 == Replace(e1, DIM2, Str(panel.width))
        e3 == Replace(e2, DIM3, Str(panel.thickness))
    IN  Strip(e3, QUOTE)

\* CalcAppend with the buffer kept after a triple is emitted
CalcAppend_NoReset(st, triplet) ==
    IF Len(triplet) = TripletLen
    THEN [st EXCEPT !.results = Append(@, triplet), !.current_triplet = triplet]
    ELSE [st EXCEPT !.current_triplet = triplet]

\* lines 93-96: the value joins the buffer; a full buffer is emitted and reset
CalcAppend(st, triplet) ==
    IF Len(triplet) = TripletLen
    THEN [st EXCEPT !.results = Append(@, triplet), !.current_triplet = <<>>]
    ELSE [st EXCEPT !.current_triplet = triplet]

\* CalcStore with the value put in front of the buffer
CalcStore_Prepend(st, text, v) ==
    IF ~v.ok
    THEN [st EXCEPT !.out = Append(@, [kind |-> "eval_error", text |-> text,
                                       err |-> v.err])]
    ELSE CalcAppend(st, <<v.val>> \o st.current_triplet)

\* CalcStore with a zero standing in for the value of a failed expression
CalcStore_Zero(st, text, v) ==
    IF ~v.ok
    THEN CalcAppend([st EXCEPT !.out = Append(@, [kind |-> "eval_error",
                                                  text |-> text, err |-> v.err])],
                    Append(st.current_triplet, Whole(0)))
    ELSE CalcAppend(st, Append(st.current_triplet, v.val))

\* lines 89-93: v is what eval(text) gave
CalcStore(st, text, v) ==
    IF ~v.ok
    THEN [st EXCEPT !.out = Append(@, [kind |-> "eval_error", text |-> text,
                                       err |-> v.err])]
    ELSE CalcAppend(st, Append(st.current_triplet, v.val))

\* lines 86-88
CalcEval(st, text) == CalcStore(st, text, Eval(text))

\* CalcIter with an empty entry taking a slot of the buffer, as zero
CalcIter_EmptySlot(st, k) ==
    IF st.self.coordinates[k] = <<>>
    THEN CalcAppend(st, Append(st.current_triplet, Whole(0)))
    ELSE CalcEval([st EXCEPT !.out = Append(@, [kind |-> "expr",
                                                 text |-> st.self.coordinates[k]])],
                  Substitute(st.self.coordinates[k], st.panel))

\* CalcIter with the substituted text stored back in self.coordinates
CalcIter_WriteBack(st, k) ==
    IF st.self.coordinates[k] = <<>> THEN st
    ELSE CalcEval([st EXCEPT !.out = Append(@, [kind |-> "expr",
                                                 text |-> st.self.coordinates[k]]),
                             !.self.coordinates[k] = Substitute(@, st.panel)],
                  Substitute(st.self.coordinates[k], st.panel))

\* One pass of the loop of calculate_coordinates (lines 75-96) over entry k of
\* self.coordinates.  st holds what the method can reach: self, panel, its
\* locals results and current_triplet, and the printed output.
CalcIter(st, k) ==
    IF st.self.coordinates[k] = <<>> THEN st
    ELSE CalcEval([st EXCEPT !.out = Append(@, [kind |-> "expr",
                                                 text |-> st.self.coordinates[k]])],
                  Substitute(st.self.coordinates[k], st.panel))

RECURSIVE CalcFrom(_, _)
CalcFrom(st, k) == IF k > Len(st.self.coordinates) THEN st
                   ELSE CalcFrom(CalcIter(st, k), k + 1)

\* self.calculate_coordinates(panel): the whole call, from fresh locals
CalculateCoordinates(self, panel) ==
    CalcFrom([self |-> self, panel |-> panel, results |-> <<>>,
              current_triplet |-> <<>>, out |-> <<>>], 1).results

----------------------------------------------------------------------------
(* The inputs *)

\* a data row of 14 columns: the key, the ten fields and one more x, y, z
RowFull ==
    <<<<"2">>,
      <<"U">>,
      <<"T", "o", "p">>,
      <<"M", "3">>,
      <<"T", "h", "r", "o", "u", "g", "h">>,
      <<"D", "i", "m", "1", "/", "2">>,
      <<"5", "0">>,
      <<"4">>,
      <<"3", "2">>,
      <<"0">>,
      <<"D", "i", "m", "3">>,
      <<"D", "i", "m", "2", "*", "2">>,
      <<"6", "0">>,
      <<"1", "+", "1">>>>

\* a data row of 11 columns whose z is empty
RowNoZ ==
    <<<<"1">>,
      <<"1">>,
      <<"T", "o", "p">>,
      <<"M", "3">>,
      <<"T", "h", "r", "o", "u", "g", "h">>,
      <<"D", "i", "m", "1", "/", "2">>,
      <<"5", "0">>,
      <<"1">>,
      <<"0">>,
      <<"0">>,
      <<>>>>

\* the rows a file is made of: a blank line (csv.reader yields an empty row),
\* rows of 9 and of 10 columns, and the two data rows
BlankRow == <<>>
Row9  == SubSeq(RowFull, 1, 9)
Row10 == SubSeq(RowFull, 1, 10)

HeadPool == {BlankRow, Row9, RowNoZ}
TailPool == {BlankRow, Row9, Row10, RowNoZ, RowFull}

HeaderRows == 4
MinColumns == 10

SeqsUpTo(S, n) == UNION {[1..k -> S] : k \in 0..n}

\* a file: up to HeaderRows rows, and after a full head up to MaxRows rows in all
Files == {h \o tl : h \in [1..HeaderRows -> HeadPool],
                    tl \in SeqsUpTo(TailPool, MaxRows - HeaderRows)}
         \cup SeqsUpTo(HeadPool, HeaderRows - 1)

\* the coordinate texts a client's row is made of
E_Empty   == <<>>
E_50      == <<"5", "0">>
E_Ratio   == <<"D", "i", "m", "1", "/", "D", "i", "m", "2">>
E_Bad     == <<"b", "a", "d", "(", "(", "(">>
ClassPool == {E_Empty, E_50, E_Ratio}

E_HalfHeight  == <<"D", "i", "m", "1", "/", "2">>
E_TwiceWidth  == <<"D", "i", "m", "2", "*", "2">>
ExprPool == {E_Empty, E_50, E_Ratio, E_Bad, E_HalfHeight, E_TwiceWidth,
             <<"\"", "D", "i", "m", "3", "\"">>,
             <<"1", "/", "0">>,
             <<"D", "i", "m", "4">>,
             <<"1", "+", "1">>,
             <<"-", "(", "D", "i", "m", "1", " ", "-", " ", "2", ".", "5", ")", "*", "2">>,
             <<"\"", "D", "i", "m", "1", "+", "D", "i", "m", "1", "\"">>}

\* the coordinate lists of the client's rows: every list of the classes
\* (empty, valid, valid or failing with the board) of 3 to 3 + MaxExtra
\* entries, and every x, y, z of ExprPool
CoordinateLists ==
    UNION {[1..k -> ClassPool] : k \in TripletLen..(TripletLen + MaxExtra)}
    \cup [1..TripletLen -> ExprPool]

BoardPool == {DefaultBoard, BoardSize(0, 6, 2)}

FieldText == <<"0">>

\* the arguments of the constructor for a coordinate list c
ClientArgs(c) ==
    <<FieldText, FieldText, FieldText, FieldText, c[1], c[2],
      FieldText, FieldText, FieldText, c[3]>> \o SubSeq(c, TripletLen + 1, Len(c))

----------------------------------------------------------------------------
(* decode_tsv and main *)

\* decode_tsv without the filter "if row"
decode_tsv_KeepEmpty(f) == f

\* decode_tsv: the rows of the reader that are not empty
decode_tsv(f) == SelectSeq(f, LAMBDA row : row # <<>>)

NoBoard == BoardSize(0, 0, 0)

Init ==
    /\ file \in Files
    /\ decoded_data = <<>>
    /\ i = 0
    /\ qlt_rows = <<>>
    /\ out = <<>>
    /\ pc = "decode"
    /\ board = NoBoard
    /\ r = 0
    /\ j = 0
    /\ results = <<>>
    /\ current_triplet = <<>>
    /\ coordinates = <<>>
    /\ t = 0
    /\ plotted = <<>>
    /\ caller = "main"

calcVars == <<j, results, current_triplet, coordinates, t, plotted>>

\* line 122
DecodeTsv ==
    /\ pc = "decode"
    /\ decoded_data' = decode_tsv(file)
    /\ i' = 0
    /\ pc' = "rows"
    /\ UNCHANGED <<file, qlt_rows, out, board, r, caller>>
    /\ UNCHANGED calcVars

\* lines 128-129: a header row or a row of fewer than 10 columns is passed over
SkipRow ==
    /\ pc = "rows"
    /\ i < Len(decoded_data)
    /\ (i < HeaderRows \/ Len(decoded_data[i + 1]) < MinColumns)
    /\ i' = i + 1
    /\ UNCHANGED <<file, decoded_data, qlt_rows, out, pc, board, r, caller>>
    /\ UNCHANGED calcVars

\* lines 131-134: the row is built from the columns after column 0
AcceptRow ==
    /\ pc = "rows"
    /\ i < Len(decoded_data)
    /\ ~(i < HeaderRows \/ Len(decoded_data[i + 1]) < MinColumns)
    /\ LET q == QltMachineRow(Tail(decoded_data[i + 1]))
       IN  /\ q.ok
           /\ qlt_rows' = Append(qlt_rows, q.row)
    /\ i' = i + 1
    /\ UNCHANGED <<file, decoded_data, out, pc, board, r, caller>>
    /\ UNCHANGED calcVars

\* RejectRow without the try: the exception ends the run
RejectRow_Abort ==
    /\ pc = "rows"
    /\ i < Len(decoded_data)
    /\ ~(i < HeaderRows \/ Len(decoded_data[i + 1]) < MinColumns)
    /\ ~QltMachineRow(Tail(decoded_data[i + 1])).ok
    /\ out' = Append(out, [kind |-> "traceback", i |-> i, err |-> "TypeError"])
    /\ pc' = "done"
    /\ UNCHANGED <<file, decoded_data, i, qlt_rows, board, r, caller>>
    /\ UNCHANGED calcVars

\* lines 135-137: the constructor raised; the error is printed
RejectRow ==
    /\ pc = "rows"
    /\ i < Len(decoded_data)
    /\ ~(i < HeaderRows \/ Len(decoded_data[i + 1]) < MinColumns)
    /\ LET q == QltMachineRow(Tail(decoded_data[i + 1]))
       IN  /\ ~q.ok
           /\ out' = Append(out, [kind |-> "row_error", i |-> i, err |-> q.err])
    /\ i' = i + 1
    /\ UNCHANGED <<file, decoded_data, qlt_rows, pc, board, r, caller>>
    /\ UNCHANGED calcVars

\* line 140 (the figure and the board's outline belong to the renderer)
MakeBoard ==
    /\ pc = "rows"
    /\ i = Len(decoded_data)
    /\ board' = DefaultBoard
    /\ r' = 1
    /\ pc' = "machine_rows"
    /\ UNCHANGED <<file, decoded_data, i, qlt_rows, out, caller>>
    /\ UNCHANGED calcVars

\* the locals of a call of calculate_coordinates, lines 70-71
EnterCalc ==
    /\ results' = <<>>
    /\ current_triplet' = <<>>
    /\ j' = 1
    /\ pc' = "calc"

\* lines 149-150: the call for the next machine_row
CallCalc ==
    /\ pc = "machine_rows"
    /\ r <= Len(qlt_rows)
    /\ EnterCalc
    /\ UNCHANGED <<file, decoded_data, i, qlt_rows, out, board, r, coordinates,
                   t, plotted, caller>>

\* what one pass of the loop leaves behind
CalcStored(st) ==
    /\ qlt_rows' = [qlt_rows EXCEPT ![r] = st.self]
    /\ board' = st.panel
    /\ results' = st.results
    /\ current_triplet' = st.current_triplet
    /\ out' = st.out

\* lines 75-96: one pass of the loop
CalcStep ==
    /\ pc = "calc"
    /\ j <= Len(qlt_rows[r].coordinates)
    /\ CalcStored(CalcIter([self |-> qlt_rows[r], panel |-> board,
                            results |-> results,
                            current_triplet |-> current_triplet, out |-> out], j))
    /\ j' = j + 1
    /\ UNCHANGED <<file, decoded_data, i, pc, r, coordinates, t, plotted, caller>>

\* line 97, and the assignment of line 150
CalcReturn ==
    /\ pc = "calc"
    /\ j > Len(qlt_rows[r].coordinates)
    /\ coordinates' = results
    /\ t' = 1
    /\ pc' = IF caller = "main" THEN "triplets" ELSE "returned"
    /\ UNCHANGED <<file, decoded_data, i, qlt_rows, out, board, r, j, results,
                   current_triplet, plotted, caller>>

\* lines 151-154
PlotTriplet ==
    /\ pc = "triplets"
    /\ t <= Len(coordinates)
    /\ out' = Append(out, [kind |-> "triplet", v |-> coordinates[t]])
    /\ plotted' = Append(plotted, <<coordinates[t][1], coordinates[t][2]>>)
    /\ t' = t + 1
    /\ UNCHANGED <<file, decoded_data, i, qlt_rows, pc, board, r, j, results,
                   current_triplet, coordinates, caller>>

\* line 149: on to the next machine_row
NextMachineRow ==
    /\ pc = "triplets"
    /\ t > Len(coordinates)
    /\ r' = r + 1
    /\ pc' = "machine_rows"
    /\ UNCHANGED <<file, decoded_data, i, qlt_rows, out, board, j, results,
                   current_triplet, coordinates, t, plotted, caller>>

\* lines 157-161
Show ==
    /\ pc = "machine_rows"
    /\ r > Len(qlt_rows)
    /\ pc' = "done"
    /\ UNCHANGED <<file, decoded_data, i, qlt_rows, out, board, r, caller>>
    /\ UNCHANGED calcVars

Next ==
    \/ DecodeTsv
    \/ SkipRow
    \/ AcceptRow
    \/ RejectRow
    \/ MakeBoard
    \/ CallCalc
    \/ CalcStep
    \/ CalcReturn
    \/ PlotTriplet
    \/ NextMachineRow
    \/ Show

Spec == Init /\ [][Next]_vars

----------------------------------------------------------------------------
(* A client of the class: it builds one row and one board, calls           *)
(* calculate_coordinates, and calls it once more on the same row and board *)

InitClient ==
    /\ file = <<>>
    /\ decoded_data = <<>>
    /\ i = 0
    /\ \E c \in CoordinateLists : qlt_rows = <<QltMachineRow(ClientArgs(c)).row>>
    /\ board \in BoardPool
    /\ out = <<>>
    /\ r = 1
    /\ j = 1
    /\ results = <<>>
    /\ current_triplet = <<>>
    /\ coordinates = <<>>
    /\ t = 0
    /\ plotted = <<>>
    /\ pc = "calc"
    /\ caller = "client"

CallAgain ==
    /\ pc = "returned"
    /\ caller = "client"
    /\ caller' = "client_again"
    /\ EnterCalc
    /\ UNCHANGED <<file, decoded_data, i, qlt_rows, out, board, r, coordinates,
                   t, plotted>>

NextClient ==
    \/ CalcStep
    \/ CalcReturn
    \/ CallAgain

SpecClient == InitClient /\ [][NextClient]_vars

----------------------------------------------------------------------------
(* What the claims speak of *)

\* the row and the board of the call in progress or just returned
Self  == qlt_rows[r]
Panel == board

\* whether entry e resolves on panel: it is not empty and eval raises nothing
Resolves(e, panel) == e # <<>> /\ Eval(Substitute(e, panel)).ok

\* the number of entries of c that resolve
ResolvedCount(c, panel) == Cardinality({k \in 1..Len(c) : Resolves(c[k], panel)})

RECURSIVE ResolvedValues(_, _)
\* the values of the entries of c that resolve, in the order of c
ResolvedValues(c, panel) ==
    IF c = <<>> THEN <<>>
    ELSE IF Resolves(Head(c), panel)
         THEN <<Eval(Substitute(Head(c), panel)).val>> \o ResolvedValues(Tail(c), panel)
         ELSE ResolvedValues(Tail(c), panel)

RECURSIVE Flatten(_)
Flatten(ts) == IF ts = <<>> THEN <<>> ELSE Head(ts) \o Flatten(Tail(ts))

Returned == pc = "returned"

\* C1: the number of triples returned is floor(k / 3), k the number of entries
\* that are not empty and evaluate without error; when every entry resolves
\* it is floor(len(coordinates) / 3).
C1_TripleCount ==
    Returned =>
        /\ Len(coordinates) = ResolvedCount(Self.coordinates, Panel) \div 3
        /\ (\A k \in 1..Len(Self.coordinates) : Resolves(Self.coordinates[k], Panel))
               => Len(coordinates) = Len(Self.coordinates) \div 3

\* a row of six entries, five of which resolve, has returned one triple
C1_Witness ==
    /\ Returned
    /\ Len(Self.coordinates) = 6
    /\ ResolvedCount(Self.coordinates, Panel) = 5
    /\ Len(coordinates) = 1

\* what C2 asks of every state of a call; C2_Step, of every step
C2_State ==
    /\ pc = "calc" =>
          /\ Flatten(results) \o current_triplet
                = ResolvedValues(SubSeq(Self.coordinates, 1, j - 1), Panel)
          /\ Len(current_triplet) < 3
          /\ \A k \in 1..Len(results) : Len(results[k]) = 3
    /\ Returned =>
          LET rv == ResolvedValues(Self.coordinates, Panel)
          IN  /\ Len(coordinates) = Len(rv) \div 3
              /\ \A k \in 1..Len(coordinates) :
                    coordinates[k] = <<rv[3 * k - 2], rv[3 * k - 1], rv[3 * k]>>

C2_Step ==
    (pc = "calc" /\ results' # results) =>
        /\ Len(current_triplet) = 2
        /\ current_triplet' = <<>>
        /\ results' = Append(results, results'[Len(results')])
        /\ SubSeq(results'[Len(results')], 1, 2) = current_triplet

\* C2: triple i is the resolved values 3i, 3i+1, 3i+2 in input order; a triple
\* is emitted only from a buffer of exactly 3 values, which is then reset; a
\* buffer of 1 or 2 values at the end of the row is dropped.
C2_TripleContents == []C2_State /\ [][C2_Step]_vars

\* five resolved values, all different, gave one triple of the first three:
\* the last two were dropped
C2_Witness ==
    /\ Returned
    /\ Len(ResolvedValues(Self.coordinates, Panel)) = 5
    /\ coordinates = <<SubSeq(ResolvedValues(Self.coordinates, Panel), 1, 3)>>
    /\ coordinates[1][1] # coordinates[1][2]

NonEmpty(c) == SelectSeq(c, LAMBDA e : e # <<>>)

\* C3: an empty entry gives no value and takes no slot of the buffer: the
\* triples are those of the row with its empty entries removed; x, y, "" with
\* x and y valid gives no triple.
C3_EmptyDrop ==
    Returned =>
        /\ coordinates
              = CalculateCoordinates([Self EXCEPT !.coordinates = NonEmpty(@)], Panel)
        /\ (/\ Len(Self.coordinates) = 3
            /\ Self.coordinates[3] = <<>>
            /\ Resolves(Self.coordinates[1], Panel)
            /\ Resolves(Self.coordinates[2], Panel)) => coordinates = <<>>

\* a triple was returned although an empty entry stands among its three
\* expressions
C3_Witness ==
    /\ Returned
    /\ Len(coordinates) = 1
    /\ Len(Self.coordinates) = 4
    /\ Self.coordinates[2] = <<>>
    /\ ResolvedCount(Self.coordinates, Panel) = 3

\* the entry the loop is about to read
AtEntry == pc = "calc" /\ j <= Len(Self.coordinates)

Failing == AtEntry /\ Self.coordinates[j] # <<>> /\ ~Resolves(Self.coordinates[j], Panel)

IsReport(o) == o.kind = "eval_error"

\* what C4 asks of the pass over a failing entry
C4_Step ==
    Failing =>
        /\ results' = results
        /\ current_triplet' = current_triplet
        /\ Len(out') = Len(out) + 2
        /\ SubSeq(out', 1, Len(out)) = out
        /\ IsReport(out'[Len(out')])
        /\ out'[Len(out')].text = Substitute(Self.coordinates[j], Panel)
        /\ pc' = "calc"
        /\ j' = j + 1
        /\ qlt_rows' = qlt_rows

\* C4: an entry that fails to parse or evaluate is reported and dropped: no
\* value is put in the buffer, the buffer and the triples are kept, and the
\* loop goes on with the next entry of the same row.
C4_FailSkipContinue == [][C4_Step]_vars

\* valid, failing, valid, valid: the failure between them was reported and the
\* three valid values made the triple
C4_Witness ==
    /\ Returned
    /\ Len(Self.coordinates) = 4
    /\ Resolves(Self.coordinates[1], Panel)
    /\ Self.coordinates[2] # <<>> /\ ~Resolves(Self.coordinates[2], Panel)
    /\ Len(coordinates) = 1
    /\ \E k \in 1..Len(out) : IsReport(out[k])

\* what C9 asks of every step of a call
C9_Step ==
    /\ pc = "calc" => (qlt_rows' = qlt_rows /\ board' = board)
    /\ (pc = "calc" /\ pc' = "returned" /\ caller = "client_again")
          => coordinates' = coordinates

\* C9: calculate_coordinates changes neither the row nor the board, whether
\* or not an entry failed, and a second call on the same row gives the same
\* triples.
C9_NoMutation == [][C9_Step]_vars

\* the second call of a row with a failing entry has returned a triple
C9_Witness ==
    /\ Returned
    /\ caller = "client_again"
    /\ Len(coordinates) >= 1
    /\ \E k \in 1..Len(Self.coordinates) :
          Self.coordinates[k] # <<>> /\ ~Resolves(Self.coordinates[k], Panel)

RECURSIVE Bound(_, _, _)
\* e from position p with each placeholder read as the board's dimension:
\* Dim1 the height, Dim2 the width, Dim3 the thickness
Bound(e, p, panel) ==
    IF p > Len(e) THEN <<>>
    ELSE IF StartsWithAt(e, p, DIM1) THEN Str(panel.height) \o Bound(e, p + 4, panel)
    ELSE IF StartsWithAt(e, p, DIM2) THEN Str(panel.width) \o Bound(e, p + 4, panel)
    ELSE IF StartsWithAt(e, p, DIM3) THEN Str(panel.thickness) \o Bound(e, p + 4, panel)
    ELSE <<e[p]>> \o Bound(e, p + 1, panel)

RECURSIVE Unquoted(_)
Unquoted(e) ==
    IF e # <<>> /\ Head(e) = QUOTE THEN Unquoted(Tail(e))
    ELSE IF e # <<>> /\ e[Len(e)] = QUOTE THEN Unquoted(SubSeq(e, 1, Len(e) - 1))
    ELSE e

\* the value the pass of the loop just made has put in the buffer
NewValue(res, ct) == IF ct # <<>> THEN ct[Len(ct)] ELSE res[Len(res)][3]

\* what C10 asks of the pass over an entry that is not empty
C10_Step ==
    (AtEntry /\ Self.coordinates[j] # <<>>) =>
        LET e   == Self.coordinates[j]
            v   == Eval(Unquoted(Bound(e, 1, Panel)))
            new == NewValue(results', current_triplet')
        IN  /\ IF v.ok
               THEN new = v.val
               ELSE /\ IsReport(out'[Len(out')])
                    /\ out'[Len(out')].text = Unquoted(Bound(e, 1, Panel))
            /\ (e = E_HalfHeight /\ Panel.height = 800) => new = Whole(400)
            /\ (e = E_TwiceWidth /\ Panel.width = 200) => new = Whole(400)

\* C10: in an entry that is not empty every Dim1 is replaced by the height,
\* every Dim2 by the width and every Dim3 by the thickness, and the quotes
\* around the text are stripped, before the text is evaluated: Dim1/2 is 400
\* on a board of height 800, Dim2*2 is 400 on a board of width 200.
C10_Placeholders == [][C10_Step]_vars

\* on the default board the row Dim1/2, Dim2*2, "Dim3" gave the triple
\* 400, 400, 16
C10_Witness ==
    /\ Returned
    /\ Panel = DefaultBoard
    /\ Self.coordinates[1] = E_HalfHeight
    /\ Self.coordinates[2] = E_TwiceWidth
    /\ Self.coordinates[3] # <<>>
    /\ Head(Self.coordinates[3]) = QUOTE
    /\ coordinates = <<<<Whole(400), Whole(400), Whole(16)>>>>

----------------------------------------------------------------------------
(* The decoder *)

\* the first loop of main is about to read row i of decoded_data
AtRow == pc = "rows" /\ i < Len(decoded_data)

\* that row, and the number of its columns after column 0
Row == decoded_data[i + 1]
Usable == Len(Row) - 1

Built == qlt_rows'[Len(qlt_rows')]

Decoded == pc \in {"machine_rows", "calc", "triplets", "done"}

\* what C5 asks of the step over a row after the header rows
C5_Step ==
    (AtRow /\ i >= 4) =>
        /\ Usable >= 10 => Len(qlt_rows') = Len(qlt_rows) + 1
        /\ Usable < 10 => qlt_rows' = qlt_rows
        /\ Usable = 10 => Built.coordinates = <<Row[6], Row[7], Row[11]>>

\* C5: a row after the header rows is accepted if and only if it has at
\* least 10 columns after column 0; 9 such columns give no QltMachineRow, 10
\* give one whose coordinate list is exactly x, y, z.
C5_ColumnGate == [][C5_Step]_vars

\* after the header rows a row of 9 usable columns and then one of 10: one
\* QltMachineRow of three coordinates
C5_Witness ==
    /\ pc = "done"
    /\ Len(decoded_data) = 6
    /\ Len(decoded_data[5]) = 10
    /\ Len(decoded_data[6]) = 11
    /\ Len(qlt_rows) = 1
    /\ Len(qlt_rows[1].coordinates) = 3

\* the number of rows of the file before row k that are not empty
RowsBefore(f, k) == Cardinality({m \in 1..(k - 1) : f[m] # <<>>})

\* C6 as stated: the first 4 rows of the input are skipped by position,
\* whatever they hold, and no later row is: a row of the file gives a
\* QltMachineRow exactly when 4 rows stand before it and it has the columns.
C6_SkipsFirstFourOfInput ==
    pc = "done" =>
        Len(qlt_rows) = Cardinality({k \in 1..Len(file) : k > 4 /\ Len(file[k]) >= 11})

\* what the amended C6 asks of every step
C6_HeaderSkip ==
    /\ (AtRow /\ i < 4) => (qlt_rows' = qlt_rows /\ out' = out)
    /\ (pc' = "done") =>
          Len(qlt_rows') = Cardinality({k \in 1..Len(file) :
                              RowsBefore(file, k) >= 4 /\ Len(file[k]) >= 11})

\* C6 as amended: the positions are counted over the rows that are not empty.
C6_HeaderSkipNonEmpty == [][C6_HeaderSkip]_vars

\* a blank line among the first rows: the data row that is fifth among the
\* rows that are not empty was decoded, the one that is fourth was not
C6_Witness ==
    /\ pc = "done"
    /\ Len(file) = 6
    /\ \E k \in 1..4 : file[k] = <<>>
    /\ Len(file[5]) >= 11
    /\ Len(file[6]) >= 11
    /\ Len(qlt_rows) = 1

\* what C7 asks of the step that builds a row
C7_Step ==
    (AtRow /\ Len(qlt_rows') = Len(qlt_rows) + 1) =>
        /\ Built.use = Row[2]
        /\ Built.layer = Row[3]
        /\ Built.diam = Row[4]
        /\ Built.depth = Row[5]
        /\ Built.rep_qty = Row[8]
        /\ Built.repx = Row[9]
        /\ Built.repy = Row[10]
        /\ Len(Built.coordinates) = Usable - 7
        /\ Built.coordinates[1] = Row[5 + 1]
        /\ Built.coordinates[2] = Row[6 + 1]
        /\ Built.coordinates[3] = Row[10 + 1]
        /\ \A k \in 3..(Usable - 8) : Built.coordinates[k + 1] = Row[8 + k + 1]

\* C7: the columns after column 0 are use, layer, diam, depth, x, y, repQty,
\* repX, repY, z, and the coordinate list is x, y, z and then every further
\* column in file order: n - 7 entries for n usable columns, entry 0 column 5,
\* entry 1 column 6, entry 2 column 10, entry k >= 3 column 8 + k.
C7_PositionalMapping == [][C7_Step]_vars

\* a row of 13 usable columns was decoded into six coordinate entries
C7_Witness ==
    /\ pc = "done"
    /\ \E k \in 1..Len(qlt_rows) :
          /\ Len(qlt_rows[k].coordinates) = 6
          /\ qlt_rows[k].coordinates[4] = RowFull[12]

IsRowReport(o, k) == o.kind = "row_error" /\ o.i = k

\* the rows after the header rows that have the columns, in the order of the file
Accepted == SelectSeq(SubSeq(decoded_data, 5, Len(decoded_data)),
                      LAMBDA row : Len(row) >= 11)

\* a row after the header rows is built or skipped, the loop goes on with the
\* next row, and the rows built are the accepted rows in input order
C8_Continues ==
    /\ (AtRow /\ i >= 4) =>
          /\ i' = i + 1
          /\ pc' = "rows"
          /\ decoded_data' = decoded_data
          /\ (qlt_rows' = qlt_rows \/ Len(qlt_rows') = Len(qlt_rows) + 1)
          /\ qlt_rows' # qlt_rows => out' = out
    /\ Decoded' =>
          /\ Len(qlt_rows') = Len(Accepted')
          /\ \A k \in 1..Len(qlt_rows') :
                qlt_rows'[k] = QltMachineRow(Tail(Accepted'[k])).row

\* a row after the header rows that is not built is reported
C8_Reported ==
    (AtRow /\ i >= 4 /\ qlt_rows' = qlt_rows) =>
        (Len(out') = Len(out) + 1 /\ IsRowReport(out'[Len(out')], i))

\* C8 as stated: every row after the header rows that gives no QltMachineRow
\* is skipped and reported, one report for each, and decoding goes on with
\* the next row; the rows decoded are the accepted rows in input order.
C8_EverySkippedRowReported == [][C8_Continues /\ C8_Reported]_vars

\* a row after the header rows that is not built is reported when it has 10
\* columns in all, and passed over without a report when it has fewer
C8_ReportedIfTenColumns ==
    (AtRow /\ i >= 4 /\ qlt_rows' = qlt_rows) =>
        IF Len(Row) >= 10
        THEN Len(out') = Len(out) + 1 /\ IsRowReport(out'[Len(out')], i)
        ELSE out' = out

\* C8 as amended: every row after the header rows that gives no QltMachineRow
\* is skipped and decoding goes on with the next row; it is reported only
\* when it has 10 columns in all (9 after column 0), a shorter one is skipped
\* without a report; the rows decoded are the accepted rows in input order.
C8_SkipAndContinue == [][C8_Continues /\ C8_ReportedIfTenColumns]_vars

\* a row of 9 columns passed in silence, a row of 10 columns reported, and the
\* data row after them decoded
C8_Witness ==
    /\ pc = "done"
    /\ Len(decoded_data) = 7
    /\ Len(decoded_data[5]) = 9
    /\ Len(decoded_data[6]) = 10
    /\ Len(qlt_rows) = 1
    /\ Len(out) >= 1
    /\ IsRowReport(out[1], 5)

====
